---- MODULE Spec2Model ----
(***************************************************************************)
(* Model of the scheduling core of the social-media automation backend:    *)
(* backend/services/scheduler.py, class IntelligentScheduler.              *)
(*                                                                         *)
(* Time.  An instant is a number of minutes since a Monday 00:00 UTC.  A   *)
(* datetime value is a record [wall, off, aware]: the wall-clock fields    *)
(* written as minutes, the UTC offset of its tzinfo in minutes, and        *)
(* whether it carries a tzinfo at all.  The instant of an aware datetime   *)
(* is wall - off.  Zones are fixed-offset zones (no DST transitions).      *)
(*                                                                         *)
(* Scores.  engagement_score is kept as an exact rational scaled by        *)
(* ScoreScale, which is large enough for MaxUpdates blends to stay exact;   *)
(* the rounding of Python's floats is not modelled.                        *)
(***************************************************************************)
EXTENDS Integers, Sequences, FiniteSets, TLC

VARIABLES
    now,              \* the wall clock: current instant, minutes UTC
    user_timezone,    \* self.user_timezone
    sleep_start,      \* self.sleep_start
    sleep_end,        \* self.sleep_end
    optimal_times,    \* self.optimal_times : sequence of OptimalTimeSlot
    scheduled_posts,  \* self.scheduled_posts : sequence of ScheduleEntry
    updates,          \* number of update_engagement_data calls made so far
    loop,             \* start_scheduler's loop: where it is, and when its sleep ends
    call              \* the last operation: its name, inputs and outcome

vars == <<now, user_timezone, sleep_start, sleep_end, optimal_times,
          scheduled_posts, updates, loop, call>>

-----------------------------------------------------------------------------
(* Bounds of the exploration *)

MaxPosts == 2
MaxUpdates == 2

(* Program constants *)

DefaultSleepStart == 0
DefaultSleepEnd == 6
UpcomingLimit == 10
NewSlotThreshold == 75
MinutesPerDay == 1440
DaysPerWeek == 7

-----------------------------------------------------------------------------
(* datetime arithmetic *)

RECURSIVE Pow(_, _)
Pow(b, n) == IF n = 0 THEN 1 ELSE b * Pow(b, n - 1)

\* Scores are stored multiplied by ScoreScale; Score(85) is 0.85.
ScoreScale == 100 * Pow(5, MaxUpdates)
Score(hundredths) == hundredths * (ScoreScale \div 100)

At(day, hour, minute) == day * MinutesPerDay + hour * 60 + minute

None == [none |-> TRUE]

\* pytz.timezone(name) for the zones explored: the zone's UTC offset.
UtcOffset(tz) ==
    CASE tz = "Asia/Kolkata" -> 330
      [] tz = "America/Bogota" -> -300
      [] OTHER -> 0

\* datetime.now(tz) when the clock shows instant t.
DatetimeNow(t, tz) == [wall |-> t + UtcOffset(tz), off |-> UtcOffset(tz), aware |-> TRUE]

\* A naive datetime (tzinfo None) with the given wall-clock fields.
Naive(w) == [wall |-> w, off |-> 0, aware |-> FALSE]

\* An aware datetime at instant t carrying a UTC tzinfo.
AwareUtc(t) == [wall |-> t, off |-> 0, aware |-> TRUE]

Instant(dt) == dt.wall - dt.off

\* dt.astimezone(tz) of an aware datetime.
Astimezone(dt, tz) == [wall |-> Instant(dt) + UtcOffset(tz), off |-> UtcOffset(tz), aware |-> TRUE]

Weekday(dt) == (dt.wall \div MinutesPerDay) % DaysPerWeek
DateOf(dt) == dt.wall \div MinutesPerDay
Hour(dt) == (dt.wall % MinutesPerDay) \div 60
Minute(dt) == dt.wall % 60

\* Python raises TypeError when an offset-naive and an offset-aware datetime
\* are compared with <, <=, > or >=.
Comparable(a, b) == a.aware = b.aware
DtLe(a, b) == Instant(a) <= Instant(b)
DtGt(a, b) == Instant(a) > Instant(b)

\* int(dt.timestamp()): epoch seconds; a naive datetime is read in the
\* process's local zone, taken to be UTC.
Timestamp(dt) == IF dt.aware THEN Instant(dt) * 60 ELSE dt.wall * 60

-----------------------------------------------------------------------------
(* The slot catalog *)

OptimalTimeSlot(h, m, d, s, p) ==
    [hour |-> h, minute |-> m, day_of_week |-> d, engagement_score |-> s, platform |-> p]

_load_default_optimal_times ==
    << OptimalTimeSlot(9, 0, 1, Score(85), "reddit"),
       OptimalTimeSlot(14, 0, 2, Score(82), "reddit"),
       OptimalTimeSlot(11, 0, 6, Score(78), "reddit"),
       OptimalTimeSlot(20, 0, 4, Score(88), "discord"),
       OptimalTimeSlot(19, 30, 5, Score(85), "discord"),
       OptimalTimeSlot(15, 0, 6, Score(80), "discord"),
       OptimalTimeSlot(8, 30, 1, Score(83), "mastodon"),
       OptimalTimeSlot(18, 0, 3, Score(81), "mastodon"),
       OptimalTimeSlot(12, 0, 5, Score(79), "mastodon") >>

\* _is_sleep_time reading the hour of dt in UTC instead of the user's zone.
_is_sleep_time_UtcHour(dt, tz, ss, se) ==
    LET utc_hour == Hour(Astimezone(dt, "UTC"))
    IN  ss <= utc_hour /\ utc_hour < se

\* _is_sleep_time(dt), with the scheduler's zone and window passed explicitly.
_is_sleep_time(dt, tz, ss, se) ==
    LET local_hour == Hour(Astimezone(dt, tz))
    IN  ss <= local_hour /\ local_hour < se

\* _get_next_occurrence taking the target day as already gone only when it is
\* before today (days_ahead < 0).
_get_next_occurrence_SameDay(slot, from_time) ==
    LET d0 == slot.day_of_week - Weekday(from_time)
        days_ahead == IF d0 < 0 THEN d0 + DaysPerWeek ELSE d0
        target_date == DateOf(from_time) + days_ahead
    IN  [wall |-> At(target_date, slot.hour, slot.minute), off |-> from_time.off, aware |-> TRUE]

\* _get_next_occurrence(slot, from_time): from_time is aware, in the user's zone.
_get_next_occurrence(slot, from_time) ==
    LET d0 == slot.day_of_week - Weekday(from_time)
        days_ahead == IF d0 <= 0 THEN d0 + DaysPerWeek ELSE d0
        target_date == DateOf(from_time) + days_ahead
    IN  [wall |-> At(target_date, slot.hour, slot.minute), off |-> from_time.off, aware |-> TRUE]

\* _get_next_non_sleep_time moving to the hour at which the window ends,
\* minutes dropped, instead of walking.
_get_next_non_sleep_time_ToWindowEnd(current, tz, ss, se) ==
    IF _is_sleep_time(current, tz, ss, se)
    THEN [current EXCEPT !.wall = At(DateOf(current), se, 0)]
    ELSE current

\* _get_next_non_sleep_time(from_time): walk forward an hour at a time.
RECURSIVE _get_next_non_sleep_time(_, _, _, _)
_get_next_non_sleep_time(current, tz, ss, se) ==
    IF _is_sleep_time(current, tz, ss, se)
    THEN _get_next_non_sleep_time([current EXCEPT !.wall = @ + 60], tz, ss, se)
    ELSE current

\* list.sort(key = ..., reverse = True).  Python's sort is stable, also with
\* reverse = True: elements with equal keys keep their relative order.  The
\* sort is computed on positions: keys[i] is the key of element i, and the
\* result lists the positions 1..Len(keys) in sorted order.
\* A descending sort that puts an element before the elements of equal key
\* (what sorting ascending and reversing the list does).
RECURSIVE InsertDesc_BeforeEqual(_, _, _)
InsertDesc_BeforeEqual(i, sorted, keys) ==
    IF sorted = <<>> THEN <<i>>
    ELSE IF keys[Head(sorted)] > keys[i]
         THEN <<Head(sorted)>> \o InsertDesc_BeforeEqual(i, Tail(sorted), keys)
         ELSE <<i>> \o sorted

RECURSIVE InsertDesc(_, _, _)
InsertDesc(i, sorted, keys) ==
    IF sorted = <<>> THEN <<i>>
    ELSE IF keys[Head(sorted)] >= keys[i]
         THEN <<Head(sorted)>> \o InsertDesc(i, Tail(sorted), keys)
         ELSE <<i>> \o sorted

RECURSIVE SortDescUpTo(_, _)
SortDescUpTo(n, keys) ==
    IF n = 0 THEN <<>> ELSE InsertDesc(n, SortDescUpTo(n - 1, keys), keys)

SortedDesc(items, keys) ==
    LET perm == SortDescUpTo(Len(items), keys)
    IN  [i \in 1..Len(items) |-> items[perm[i]]]

\* list.sort(key = ...) ascending, stable.
RECURSIVE InsertAsc(_, _, _)
InsertAsc(i, sorted, keys) ==
    IF sorted = <<>> THEN <<i>>
    ELSE IF keys[Head(sorted)] <= keys[i]
         THEN <<Head(sorted)>> \o InsertAsc(i, Tail(sorted), keys)
         ELSE <<i>> \o sorted

RECURSIVE SortAscUpTo(_, _)
SortAscUpTo(n, keys) ==
    IF n = 0 THEN <<>> ELSE InsertAsc(n, SortAscUpTo(n - 1, keys), keys)

SortedAsc(items, keys) ==
    LET perm == SortAscUpTo(Len(items), keys)
    IN  [i \in 1..Len(items) |-> items[perm[i]]]

\* [x for x in s if keep(x)], given as the positions kept, in order.
RECURSIVE KeptUpTo(_, _)
KeptUpTo(n, keep) ==
    IF n = 0 THEN <<>>
    ELSE IF keep[n] THEN Append(KeptUpTo(n - 1, keep), n) ELSE KeptUpTo(n - 1, keep)

-----------------------------------------------------------------------------
(* The scheduler object.  Every method is an operator from the object (and  *)
(* the clock reading t, and the arguments) to the object afterwards and the *)
(* value returned: [self |-> ..., ret |-> ...].                             *)

Self ==
    [user_timezone |-> user_timezone, sleep_start |-> sleep_start, sleep_end |-> sleep_end,
     optimal_times |-> optimal_times, scheduled_posts |-> scheduled_posts]

\* __init__, with RAILWAY_TIMEZONE read from the environment.
SchedulerInit(tz) ==
    [user_timezone |-> tz, sleep_start |-> DefaultSleepStart, sleep_end |-> DefaultSleepEnd,
     optimal_times |-> _load_default_optimal_times, scheduled_posts |-> <<>>]

IsSleep(self, dt) == _is_sleep_time(dt, self.user_timezone, self.sleep_start, self.sleep_end)

\* How a call ends: it returns a value or raises an exception.
Return(value) == [value |-> value]
Raise(name) == [error |-> name]
IsError(ret) == "error" \in DOMAIN ret

\* datetime.isoformat(): the wall-clock fields, and the offset when aware.
Isoformat(dt) == IF dt.aware THEN <<dt.wall, dt.off>> ELSE <<dt.wall>>

\* strftime('%A')
DayName(dt) ==
    <<"Monday", "Tuesday", "Wednesday", "Thursday", "Friday", "Saturday", "Sunday">>[Weekday(dt) + 1]

\* strftime('%I:%M %p'): 12-hour clock, minute, AM or PM.
LocalTime(dt) ==
    LET h == Hour(dt)
    IN  <<IF h % 12 = 0 THEN 12 ELSE h % 12, Minute(dt), IF h < 12 THEN "AM" ELSE "PM">>

ScheduleItem(slot, next_occurrence) ==
    [platform |-> slot.platform,
     time |-> Isoformat(next_occurrence),
     engagement_score |-> slot.engagement_score,
     day_name |-> DayName(next_occurrence),
     local_time |-> LocalTime(next_occurrence)]

\* optimize_schedule reading schedule[0] without asking whether the list is
\* empty.
optimize_schedule_UncheckedFirst(self, t) ==
    LET now_dt == DatetimeNow(t, self.user_timezone)
        n == Len(self.optimal_times)
        occ == [i \in 1..n |-> _get_next_occurrence(self.optimal_times[i], now_dt)]
        kept == KeptUpTo(n, [i \in 1..n |-> ~IsSleep(self, occ[i])])
        unsorted == [k \in 1..Len(kept) |-> ScheduleItem(self.optimal_times[kept[k]], occ[kept[k]])]
        schedule == SortedDesc(unsorted, [k \in 1..Len(kept) |-> unsorted[k].engagement_score])
    IN  [self |-> self,
         ret |-> IF schedule = <<>> THEN Raise("IndexError")
                 ELSE Return([optimal_schedule |-> schedule,
                              timezone |-> self.user_timezone,
                              sleep_period |-> <<self.sleep_start, self.sleep_end>>,
                              next_post_time |-> <<schedule[1].time>>])]

\* optimize_schedule; next_post_time is <<>> for None and <<time>> otherwise.
optimize_schedule(self, t) ==
    LET now_dt == DatetimeNow(t, self.user_timezone)
        n == Len(self.optimal_times)
        occ == [i \in 1..n |-> _get_next_occurrence(self.optimal_times[i], now_dt)]
        keep == [i \in 1..n |-> ~IsSleep(self, occ[i])]
        kept == KeptUpTo(n, keep)
        unsorted == [k \in 1..Len(kept) |-> ScheduleItem(self.optimal_times[kept[k]], occ[kept[k]])]
        schedule == SortedDesc(unsorted, [k \in 1..Len(kept) |-> unsorted[k].engagement_score])
    IN  [self |-> self,
         ret |-> Return([optimal_schedule |-> schedule,
                         timezone |-> self.user_timezone,
                         sleep_period |-> <<self.sleep_start, self.sleep_end>>,
                         next_post_time |-> IF schedule # <<>> THEN <<schedule[1].time>> ELSE <<>>])]

\* _find_next_optimal_slot returning the platform's nearest occurrence outside
\* the sleep window instead of the highest-scored one.
_find_next_optimal_slot_Nearest(self, t, platform) ==
    LET now_dt == DatetimeNow(t, self.user_timezone)
        n == Len(self.optimal_times)
        kept == KeptUpTo(n, [i \in 1..n |->
                    /\ self.optimal_times[i].platform = platform
                    /\ ~IsSleep(self, _get_next_occurrence(self.optimal_times[i], now_dt))])
        next_time == [k \in 1..Len(kept) |-> _get_next_occurrence(self.optimal_times[kept[k]], now_dt)]
        ranked == SortedAsc(next_time, [k \in 1..Len(kept) |-> next_time[k].wall])
    IN  IF kept # <<>> THEN ranked[1]
        ELSE _get_next_non_sleep_time(now_dt, self.user_timezone, self.sleep_start, self.sleep_end)

\* _find_next_optimal_slot
_find_next_optimal_slot(self, t, platform) ==
    LET now_dt == DatetimeNow(t, self.user_timezone)
        n == Len(self.optimal_times)
        platform_slots ==
            LET kept == KeptUpTo(n, [i \in 1..n |-> self.optimal_times[i].platform = platform])
            IN  [k \in 1..Len(kept) |-> self.optimal_times[kept[k]]]
        m == Len(platform_slots)
        next_time == [k \in 1..m |-> _get_next_occurrence(platform_slots[k], now_dt)]
        next_slots ==
            LET kept == KeptUpTo(m, [k \in 1..m |-> ~IsSleep(self, next_time[k])])
            IN  [j \in 1..Len(kept) |-> <<next_time[kept[j]], platform_slots[kept[j]].engagement_score>>]
        ranked == SortedDesc(next_slots, [j \in 1..Len(next_slots) |-> next_slots[j][2]])
        fallback == _get_next_non_sleep_time(now_dt, self.user_timezone, self.sleep_start, self.sleep_end)
    IN  IF platform_slots = <<>> THEN fallback
        ELSE IF next_slots # <<>> THEN ranked[1][1]
        ELSE fallback

ScheduleEntry(id, content_id, platform, scheduled_time, status, created_at) ==
    [id |-> id, content_id |-> content_id, platform |-> platform,
     scheduled_time |-> scheduled_time, status |-> status, created_at |-> created_at]

\* schedule_post treating id as a key: an entry whose id is already in the
\* list takes the place of the entry holding it.
schedule_post_ReplacesSameId(self, t, content_id, platform, preferred_time) ==
    LET scheduled_time ==
            IF preferred_time # None THEN preferred_time
            ELSE _find_next_optimal_slot(self, t, platform)
        entry == ScheduleEntry(<<platform, content_id, Timestamp(scheduled_time)>>,
                               content_id, platform, scheduled_time, "pending", AwareUtc(t))
        posts == self.scheduled_posts
    IN  [self |-> [self EXCEPT !.scheduled_posts =
                      IF \E i \in 1..Len(posts) : posts[i].id = entry.id
                      THEN [i \in 1..Len(posts) |-> IF posts[i].id = entry.id THEN entry ELSE posts[i]]
                      ELSE Append(posts, entry)],
         ret |-> Return(entry)]

\* schedule_post moving a preferred time that is sleep time out of the window.
schedule_post_PreferredChecked(self, t, content_id, platform, preferred_time) ==
    LET scheduled_time ==
            IF preferred_time = None THEN _find_next_optimal_slot(self, t, platform)
            ELSE IF preferred_time.aware
                 THEN _get_next_non_sleep_time(preferred_time, self.user_timezone,
                                               self.sleep_start, self.sleep_end)
                 ELSE preferred_time
        entry == ScheduleEntry(<<platform, content_id, Timestamp(scheduled_time)>>,
                               content_id, platform, scheduled_time, "pending", AwareUtc(t))
    IN  [self |-> [self EXCEPT !.scheduled_posts = Append(@, entry)],
         ret |-> Return(entry)]

\* schedule_post: preferred_time is a datetime or None.
schedule_post(self, t, content_id, platform, preferred_time) ==
    LET scheduled_time ==
            IF preferred_time # None THEN preferred_time
            ELSE _find_next_optimal_slot(self, t, platform)
        entry == ScheduleEntry(<<platform, content_id, Timestamp(scheduled_time)>>,
                               content_id, platform, scheduled_time, "pending", AwareUtc(t))
    IN  [self |-> [self EXCEPT !.scheduled_posts = Append(@, entry)],
         ret |-> Return(entry)]

\* get_upcoming_posts sorting self.scheduled_posts itself instead of the
\* filtered copy.
get_upcoming_posts_SortsInPlace(self, t) ==
    LET posts == self.scheduled_posts
        sorted == SortedAsc(posts, [i \in 1..Len(posts) |-> posts[i].scheduled_time.wall])
        kept == KeptUpTo(Len(posts), [i \in 1..Len(posts) |->
                    /\ sorted[i].scheduled_time.wall > t
                    /\ sorted[i].status = "pending"])
    IN  [self |-> [self EXCEPT !.scheduled_posts = sorted],
         ret |-> Return([k \in 1..Len(kept) |-> sorted[kept[k]]])]

\* get_upcoming_posts: the comparison with now is made for every entry, before
\* the status test; a naive scheduled_time makes it raise TypeError.
get_upcoming_posts(self, t) ==
    LET now_dt == AwareUtc(t)
        posts == self.scheduled_posts
        n == Len(posts)
        kept == KeptUpTo(n, [i \in 1..n |-> /\ DtGt(posts[i].scheduled_time, now_dt)
                                             /\ posts[i].status = "pending"])
        unsorted == [k \in 1..Len(kept) |-> posts[kept[k]]]
        upcoming == SortedAsc(unsorted, [k \in 1..Len(kept) |-> Instant(unsorted[k].scheduled_time)])
    IN  IF \E i \in 1..n : ~Comparable(posts[i].scheduled_time, now_dt)
        THEN [self |-> self, ret |-> Raise("TypeError")]
        ELSE [self |-> self,
              ret |-> Return(SubSeq(upcoming, 1, IF Len(upcoming) < UpcomingLimit THEN Len(upcoming)
                                                 ELSE UpcomingLimit))]

\* The body of process_scheduled_posts' for loop from entry i on.  outcome[i]
\* is what the try block does for entry i: "posted" when it completes,
\* "failed" when it raises.  The test reads status, then compares the times
\* (TypeError for a naive scheduled_time, which ends the pass), then asks
\* whether now is sleep time.
IsDue_AnyStatus(self, post, now_dt) ==
    /\ DtLe(post.scheduled_time, now_dt)
    /\ ~IsSleep(self, now_dt)

IsDue_NoSleepCheck(self, post, now_dt) ==
    /\ post.status = "pending"
    /\ DtLe(post.scheduled_time, now_dt)

IsDue(self, post, now_dt) ==
    /\ post.status = "pending"
    /\ DtLe(post.scheduled_time, now_dt)
    /\ ~IsSleep(self, now_dt)

\* The for loop ending at the first hand-off that fails, after marking the
\* entry failed.
RECURSIVE SweepFrom_StopsAtFailure(_, _, _, _, _)
SweepFrom_StopsAtFailure(self, posts, i, now_dt, outcome) ==
    IF i > Len(posts) THEN [posts |-> posts, ret |-> Return(None)]
    ELSE IF posts[i].status = "pending" /\ ~Comparable(posts[i].scheduled_time, now_dt)
         THEN [posts |-> posts, ret |-> Raise("TypeError")]
    ELSE IF IsDue(self, posts[i], now_dt)
         THEN IF outcome[i] = "failed"
              THEN [posts |-> [posts EXCEPT ![i].status = "failed"], ret |-> Return(None)]
              ELSE SweepFrom_StopsAtFailure(self, [posts EXCEPT ![i].status = outcome[i]], i + 1, now_dt, outcome)
    ELSE SweepFrom_StopsAtFailure(self, posts, i + 1, now_dt, outcome)

RECURSIVE SweepFrom(_, _, _, _, _)
SweepFrom(self, posts, i, now_dt, outcome) ==
    IF i > Len(posts) THEN [posts |-> posts, ret |-> Return(None)]
    ELSE IF posts[i].status = "pending" /\ ~Comparable(posts[i].scheduled_time, now_dt)
         THEN [posts |-> posts, ret |-> Raise("TypeError")]
    ELSE IF IsDue(self, posts[i], now_dt)
         THEN SweepFrom(self, [posts EXCEPT ![i].status = outcome[i]], i + 1, now_dt, outcome)
    ELSE SweepFrom(self, posts, i + 1, now_dt, outcome)

\* process_scheduled_posts dropping from the list the entries it has handled.
process_scheduled_posts_EvictsHandled(self, t, outcome) ==
    LET r == SweepFrom(self, self.scheduled_posts, 1, AwareUtc(t), outcome)
        IsPending(e) == e.status = "pending"
    IN  [self |-> [self EXCEPT !.scheduled_posts = SelectSeq(r.posts, IsPending)], ret |-> r.ret]

\* process_scheduled_posts
process_scheduled_posts(self, t, outcome) ==
    LET r == SweepFrom(self, self.scheduled_posts, 1, AwareUtc(t), outcome)
    IN  [self |-> [self EXCEPT !.scheduled_posts = r.posts], ret |-> r.ret]

\* The last slot, in catalog order, of the platform and weekday whose hour is
\* within one of hour; 0 when there is none.
RECURSIVE FirstMatchFrom_Last(_, _, _, _, _)
FirstMatchFrom_Last(slots, i, platform, day_of_week, hour) ==
    IF i > Len(slots) THEN 0
    ELSE LET later == FirstMatchFrom_Last(slots, i + 1, platform, day_of_week, hour)
         IN  IF later # 0 THEN later
             ELSE IF /\ slots[i].platform = platform
                     /\ slots[i].day_of_week = day_of_week
                     /\ slots[i].hour - hour <= 1
                     /\ hour - slots[i].hour <= 1
                  THEN i
             ELSE 0

\* The first slot of the platform and weekday at exactly that hour; 0 when
\* there is none.
RECURSIVE FirstMatchFrom_SameHour(_, _, _, _, _)
FirstMatchFrom_SameHour(slots, i, platform, day_of_week, hour) ==
    IF i > Len(slots) THEN 0
    ELSE IF /\ slots[i].platform = platform
            /\ slots[i].day_of_week = day_of_week
            /\ slots[i].hour = hour
         THEN i
    ELSE FirstMatchFrom_SameHour(slots, i + 1, platform, day_of_week, hour)

\* The first slot, in catalog order, of the platform and weekday whose hour
\* is within one of hour; 0 when there is none.
RECURSIVE FirstMatchFrom(_, _, _, _, _)
FirstMatchFrom(slots, i, platform, day_of_week, hour) ==
    IF i > Len(slots) THEN 0
    ELSE IF /\ slots[i].platform = platform
            /\ slots[i].day_of_week = day_of_week
            /\ slots[i].hour - hour <= 1
            /\ hour - slots[i].hour <= 1
         THEN i
    ELSE FirstMatchFrom(slots, i + 1, platform, day_of_week, hour)

\* old * 0.2 + observed * 0.8: the weights exchanged.
Blend_WeightsExchanged(old, observed) == (old + observed * 4) \div 5

\* The observation added to the score without the score being scaled down.
Blend_NoDecay(old, observed) == old + observed \div 5

\* old * 0.8 + observed * 0.2, on scaled scores.
Blend(old, observed) == (old * 4 + observed) \div 5

\* update_engagement_data moving the platform's pending entries to the slot
\* that is best after the update, seen from post_time.
update_engagement_data_RetimesPending(self, platform, post_time, engagement_score) ==
    LET day_of_week == Weekday(post_time)
        hour == Hour(post_time)
        k == FirstMatchFrom(self.optimal_times, 1, platform, day_of_week, hour)
        new_slot == OptimalTimeSlot(hour, 0, day_of_week, engagement_score, platform)
        updated ==
            IF k # 0
            THEN [self EXCEPT !.optimal_times[k].engagement_score = Blend(@, engagement_score)]
            ELSE IF engagement_score > Score(NewSlotThreshold)
                 THEN [self EXCEPT !.optimal_times = Append(@, new_slot)]
                 ELSE self
        best == _find_next_optimal_slot(updated, Instant(post_time), platform)
    IN  [self |-> [updated EXCEPT !.scheduled_posts =
                      [i \in 1..Len(@) |->
                          IF @[i].status = "pending" /\ @[i].platform = platform
                          THEN [@[i] EXCEPT !.scheduled_time = best]
                          ELSE @[i]]],
         ret |-> Return(None)]

\* update_engagement_data keeping the catalog ranked: after the update the
\* slots are sorted by engagement_score, highest first.
update_engagement_data_KeepsRanked(self, platform, post_time, engagement_score) ==
    LET day_of_week == Weekday(post_time)
        hour == Hour(post_time)
        k == FirstMatchFrom(self.optimal_times, 1, platform, day_of_week, hour)
        new_slot == OptimalTimeSlot(hour, 0, day_of_week, engagement_score, platform)
        updated ==
            IF k # 0
            THEN [self.optimal_times EXCEPT ![k].engagement_score = Blend(@, engagement_score)]
            ELSE IF engagement_score > Score(NewSlotThreshold)
                 THEN Append(self.optimal_times, new_slot)
                 ELSE self.optimal_times
    IN  [self |-> [self EXCEPT !.optimal_times =
                      SortedDesc(updated, [i \in 1..Len(updated) |-> updated[i].engagement_score])],
         ret |-> Return(None)]

\* update_engagement_data adding a slot for a score of 0.75 or more.
update_engagement_data_AtLeastThreshold(self, platform, post_time, engagement_score) ==
    LET day_of_week == Weekday(post_time)
        hour == Hour(post_time)
        k == FirstMatchFrom(self.optimal_times, 1, platform, day_of_week, hour)
        new_slot == OptimalTimeSlot(hour, 0, day_of_week, engagement_score, platform)
    IN  [self |->
            IF k # 0
            THEN [self EXCEPT !.optimal_times[k].engagement_score = Blend(@, engagement_score)]
            ELSE IF engagement_score >= Score(NewSlotThreshold)
                 THEN [self EXCEPT !.optimal_times = Append(@, new_slot)]
                 ELSE self,
         ret |-> Return(None)]

\* update_engagement_data
update_engagement_data(self, platform, post_time, engagement_score) ==
    LET day_of_week == Weekday(post_time)
        hour == Hour(post_time)
        k == FirstMatchFrom(self.optimal_times, 1, platform, day_of_week, hour)
        new_slot == OptimalTimeSlot(hour, 0, day_of_week, engagement_score, platform)
    IN  [self |->
            IF k # 0
            THEN [self EXCEPT !.optimal_times[k].engagement_score = Blend(@, engagement_score)]
            ELSE IF engagement_score > Score(NewSlotThreshold)
                 THEN [self EXCEPT !.optimal_times = Append(@, new_slot)]
                 ELSE self,
         ret |-> Return(None)]

\* get_sleep_schedule
get_sleep_schedule(self, t) ==
    LET now_dt == DatetimeNow(t, self.user_timezone)
        today == DateOf(now_dt)
        roll == IF Hour(now_dt) >= self.sleep_start THEN 1 ELSE 0
        next_sleep == [wall |-> At(today + roll, self.sleep_start, 0), off |-> now_dt.off, aware |-> TRUE]
        next_wake == [wall |-> At(today + roll, self.sleep_end, 0), off |-> now_dt.off, aware |-> TRUE]
    IN  [self |-> self,
         ret |-> Return([timezone |-> self.user_timezone,
                         sleep_start |-> <<self.sleep_start, 0>>,
                         sleep_end |-> <<self.sleep_end, 0>>,
                         next_sleep_time |-> Isoformat(next_sleep),
                         next_wake_time |-> Isoformat(next_wake),
                         currently_sleeping |-> IsSleep(self, now_dt),
                         active_hours |-> <<self.sleep_end, self.sleep_start>>])]

-----------------------------------------------------------------------------
(* Inputs explored *)

Zones == {"UTC", "Asia/Kolkata", "America/Bogota"}

\* Clock readings (UTC): a Monday 09:00, the Tuesday after it at 03:00 (sleep
\* time with the default window) and at 09:00.
ClockTimes == {At(7, 9, 0), At(8, 3, 0), At(8, 9, 0)}
StartTimes == {At(7, 9, 0)}

\* Requests <<content_id, platform, preferred_time>>: reddit (in the catalog)
\* and twitter (not in it) without a preferred time, an aware Tuesday
\* 03:00 UTC, and a naive Tuesday 03:00.
Requests ==
    { <<"c1", "reddit", None>>,
      <<"c1", "twitter", None>>,
      <<"c1", "reddit", AwareUtc(At(8, 3, 0))>>,
      <<"c1", "twitter", Naive(At(8, 3, 0))>> }

\* Observations <<platform, post_time, engagement_score>>: reddit on a Tuesday
\* at 10:00 scoring 0.60, next to reddit's Tuesday 09:00 slot, which drops
\* below its Wednesday slot.
Observations ==
    { <<"reddit", AwareUtc(At(8, 10, 0)), Score(60)>> }

\* What the try block does for each entry of a pass: it raises for the
\* entries in failing and completes for the others.  Only pending entries can
\* reach the try block.
Outcomes(posts) ==
    { [i \in 1..Len(posts) |-> IF i \in failing THEN "failed" ELSE "posted"] :
        failing \in SUBSET {i \in 1..Len(posts) : posts[i].status = "pending"} }

-----------------------------------------------------------------------------
(* Actions: one per operation *)

Apply(self) ==
    /\ user_timezone' = self.user_timezone
    /\ sleep_start' = self.sleep_start
    /\ sleep_end' = self.sleep_end
    /\ optimal_times' = self.optimal_times
    /\ scheduled_posts' = self.scheduled_posts

\* The wall clock advances to a later reading.
TickTo(times) ==
    /\ \E t \in times : t > now /\ now' = t
    /\ call' = [op |-> "tick"]
    /\ UNCHANGED <<user_timezone, sleep_start, sleep_end, optimal_times, scheduled_posts, updates, loop>>

SchedulePostOp(requests, bound) ==
    /\ Len(scheduled_posts) < bound
    /\ \E q \in requests :
          LET r == schedule_post(Self, now, q[1], q[2], q[3])
          IN  /\ Apply(r.self)
              /\ call' = [op |-> "schedule_post", content_id |-> q[1], platform |-> q[2],
                          preferred_time |-> q[3], before |-> Self, ret |-> r.ret]
    /\ UNCHANGED <<now, updates, loop>>

GetUpcomingPostsOp ==
    /\ LET r == get_upcoming_posts(Self, now)
       IN  /\ Apply(r.self)
           /\ call' = [op |-> "get_upcoming_posts", ret |-> r.ret]
    /\ UNCHANGED <<now, updates, loop>>

OptimizeScheduleOp ==
    /\ LET r == optimize_schedule(Self, now)
       IN  /\ Apply(r.self)
           /\ call' = [op |-> "optimize_schedule", ret |-> r.ret]
    /\ UNCHANGED <<now, updates, loop>>

GetSleepScheduleOp ==
    /\ LET r == get_sleep_schedule(Self, now)
       IN  /\ Apply(r.self)
           /\ call' = [op |-> "get_sleep_schedule", ret |-> r.ret]
    /\ UNCHANGED <<now, updates, loop>>

ProcessScheduledPostsOp(outcomes) ==
    /\ \E outcome \in outcomes :
          LET r == process_scheduled_posts(Self, now, outcome)
          IN  /\ Apply(r.self)
              /\ call' = [op |-> "process_scheduled_posts", before |-> Self, ret |-> r.ret]
    /\ UNCHANGED <<now, updates, loop>>

UpdateEngagementDataOp(observations) ==
    /\ updates < MaxUpdates
    /\ \E o \in observations :
          LET r == update_engagement_data(Self, o[1], o[2], o[3])
          IN  /\ Apply(r.self)
              /\ call' = [op |-> "update_engagement_data", platform |-> o[1], post_time |-> o[2],
                          engagement_score |-> o[3], before |-> Self, ret |-> r.ret]
    /\ updates' = updates + 1
    /\ UNCHANGED <<now, loop>>

-----------------------------------------------------------------------------
(* Spec: the scheduler as constructed, driven by its callers and the clock *)

Init ==
    /\ now \in StartTimes
    /\ \E tz \in {"UTC"} :
          LET self == SchedulerInit(tz)
          IN  /\ user_timezone = self.user_timezone
              /\ sleep_start = self.sleep_start
              /\ sleep_end = self.sleep_end
              /\ optimal_times = self.optimal_times
              /\ scheduled_posts = self.scheduled_posts
    /\ updates = 0
    /\ loop = [pc |-> "off", wake_at |-> 0]
    /\ call = [op |-> "init"]

Tick == TickTo(ClockTimes)
SchedulePost == SchedulePostOp(Requests, MaxPosts)
GetUpcomingPosts == GetUpcomingPostsOp
OptimizeSchedule == OptimizeScheduleOp
GetSleepSchedule == GetSleepScheduleOp
ProcessScheduledPosts == ProcessScheduledPostsOp(Outcomes(scheduled_posts))
UpdateEngagementData == UpdateEngagementDataOp(Observations)

Next ==
    \/ Tick
    \/ SchedulePost
    \/ GetUpcomingPosts
    \/ OptimizeSchedule
    \/ GetSleepSchedule
    \/ ProcessScheduledPosts
    \/ UpdateEngagementData

Spec == Init /\ [][Next]_vars

-----------------------------------------------------------------------------
(* SpecLoop: start_scheduler running as a background task beside the        *)
(* callers.  A pass is followed by a sleep of 60 s, or of 300 s when the    *)
(* pass raised; the clock readings are hours apart, so the clock moves to   *)
(* its next reading only while the loop is asleep, and the loop wakes and   *)
(* makes a pass at every reading, and again and again after the last one.   *)
(* Entries are scheduled for instants up to the last reading, before the    *)
(* clock reaches it.                                                        *)

SleepOk == 1
SleepOnError == 5
LastReading == At(8, 9, 0)

InitLoop ==
    /\ now \in StartTimes
    /\ LET self == SchedulerInit("UTC")
       IN  /\ user_timezone = self.user_timezone
           /\ sleep_start = self.sleep_start
           /\ sleep_end = self.sleep_end
           /\ optimal_times = self.optimal_times
           /\ scheduled_posts = self.scheduled_posts
    /\ updates = 0
    /\ loop = [pc |-> "pass", wake_at |-> 0]
    /\ call = [op |-> "init"]

\* A pass working on the entry list as it was before the schedule_post call
\* that came last, and writing that list back.
LoopPass_StaleList ==
    /\ loop.pc = "pass"
    /\ \E outcome \in Outcomes(scheduled_posts) :
          LET seen == IF call.op = "schedule_post" THEN call.before ELSE Self
              r == process_scheduled_posts(seen, now, outcome)
          IN  /\ Apply(r.self)
              /\ call' = [op |-> "process_scheduled_posts", before |-> Self, ret |-> r.ret]
              /\ loop' = IF IsError(r.ret)
                         THEN [pc |-> "sleep_on_error", wake_at |-> now + SleepOnError]
                         ELSE [pc |-> "sleep", wake_at |-> now + SleepOk]
    /\ UNCHANGED <<now, updates>>

\* start_scheduler: await self.process_scheduled_posts(), then the sleep.
LoopPass ==
    /\ loop.pc = "pass"
    /\ \E outcome \in Outcomes(scheduled_posts) :
          LET r == process_scheduled_posts(Self, now, outcome)
          IN  /\ Apply(r.self)
              /\ call' = [op |-> "process_scheduled_posts", before |-> Self, ret |-> r.ret]
              /\ loop' = IF IsError(r.ret)
                         THEN [pc |-> "sleep_on_error", wake_at |-> now + SleepOnError]
                         ELSE [pc |-> "sleep", wake_at |-> now + SleepOk]
    /\ UNCHANGED <<now, updates>>

\* start_scheduler without the except clause: only the sleep that follows a
\* pass that returned is ever left.
LoopWake_NoExcept ==
    /\ loop.pc = "sleep"
    /\ now >= loop.wake_at
    /\ loop' = [pc |-> "pass", wake_at |-> 0]
    /\ call' = [op |-> "wake"]
    /\ UNCHANGED <<now, user_timezone, sleep_start, sleep_end, optimal_times, scheduled_posts, updates>>

\* start_scheduler: asyncio.sleep returns once the clock has reached wake_at.
LoopWake ==
    /\ loop.pc \in {"sleep", "sleep_on_error"}
    /\ now >= loop.wake_at
    /\ loop' = [pc |-> "pass", wake_at |-> 0]
    /\ call' = [op |-> "wake"]
    /\ UNCHANGED <<now, user_timezone, sleep_start, sleep_end, optimal_times, scheduled_posts, updates>>

\* The clock moves to its next reading while the loop is asleep.  The
\* instants after the last reading are represented by the last reading: there
\* the sleep ends with the reading unchanged.
TickLoop ==
    /\ loop.pc \in {"sleep", "sleep_on_error"}
    /\ now < loop.wake_at
    /\ IF \E t \in ClockTimes : t > now
       THEN /\ \E t \in ClockTimes :
                  /\ t > now
                  /\ \A u \in ClockTimes : u > now => t <= u
                  /\ now' = t
            /\ UNCHANGED loop
       ELSE /\ now' = now
            /\ loop' = [loop EXCEPT !.wake_at = now]
    /\ call' = [op |-> "tick"]
    /\ UNCHANGED <<user_timezone, sleep_start, sleep_end, optimal_times, scheduled_posts, updates>>

SchedulePostLoop ==
    /\ now < LastReading
    /\ SchedulePostOp(Requests, MaxPosts)
    /\ scheduled_posts'[Len(scheduled_posts')].scheduled_time.wall <= LastReading

NextLoop ==
    \/ LoopPass
    \/ LoopWake
    \/ TickLoop
    \/ SchedulePostLoop

SpecLoop ==
    /\ InitLoop
    /\ [][NextLoop]_vars
    /\ WF_vars(LoopPass)
    /\ WF_vars(LoopWake)
    /\ WF_vars(TickLoop)

-----------------------------------------------------------------------------
(* SpecConc: the loop of SpecLoop and the request handlers on one event     *)
(* loop.  No handler, and no pass, awaits anything that suspends it         *)
(* (schedule_post awaits _find_next_optimal_slot, which runs to its return; *)
(* start_scheduler suspends in asyncio.sleep only), so each runs from call  *)
(* to return as one step, and the steps of the loop and of the handlers     *)
(* interleave in any order.                                                 *)

NextConc ==
    \/ LoopPass
    \/ LoopWake
    \/ TickLoop
    \/ SchedulePostLoop
    \/ UpdateEngagementData
    \/ GetUpcomingPosts
    \/ OptimizeSchedule

SpecConc == InitLoop /\ [][NextConc]_vars

-----------------------------------------------------------------------------
(* SpecOcc: _get_next_occurrence on its own, for slots of every weekday and *)
(* clock readings over a week, in each zone.                                *)

OccHours == {0, 5, 9, 23}
OccMinutes == {0, 30, 59}
OccSlots ==
    { OptimalTimeSlot(h, m, d, Score(80), "reddit") : h \in OccHours, m \in OccMinutes, d \in 0..6 }

OccClockHours == {3, 9, 23}
OccClockMinutes == {0, 30}
OccTimes == { At(d, h, m) : d \in 7..13, h \in OccClockHours, m \in OccClockMinutes }

InitOcc ==
    /\ now \in OccTimes
    /\ \E tz \in Zones :
          LET self == SchedulerInit(tz)
          IN  /\ user_timezone = self.user_timezone
              /\ sleep_start = self.sleep_start
              /\ sleep_end = self.sleep_end
              /\ optimal_times = self.optimal_times
              /\ scheduled_posts = self.scheduled_posts
    /\ updates = 0
    /\ loop = [pc |-> "off", wake_at |-> 0]
    /\ call = [op |-> "init"]

GetNextOccurrence ==
    /\ \E slot \in OccSlots :
          LET from_time == DatetimeNow(now, user_timezone)
          IN  call' = [op |-> "_get_next_occurrence", slot |-> slot, from_time |-> from_time,
                       ret |-> Return(_get_next_occurrence(slot, from_time))]
    /\ UNCHANGED <<now, user_timezone, sleep_start, sleep_end, optimal_times, scheduled_posts, updates, loop>>

TickOcc == TickTo(OccTimes)

NextOcc ==
    \/ TickOcc
    \/ GetNextOccurrence

SpecOcc == InitOcc /\ [][NextOcc]_vars

-----------------------------------------------------------------------------
(* SpecOpt: optimize_schedule over catalogs changed by observed engagement, *)
(* in each zone, with the sleep window attributes at their defaults (0, 6), *)
(* at (8, 21), which holds the hour of every default slot, and at (6, 6).   *)

SleepWindows == {<<DefaultSleepStart, DefaultSleepEnd>>, <<8, 21>>, <<6, 6>>}

\* Observations: reddit Tuesday 10:00 scoring 0.60 (blends reddit's Tuesday
\* slot down to 0.80, the score of discord's Sunday slot), twitter Tuesday
\* 03:00 scoring 0.90 (a new slot at hour 3), twitter Friday 12:00 scoring
\* 0.88 (a new slot with the score of discord's Friday slot).
OptObservations ==
    { <<"reddit", AwareUtc(At(8, 10, 0)), Score(60)>>,
      <<"twitter", AwareUtc(At(8, 3, 0)), Score(90)>>,
      <<"twitter", AwareUtc(At(11, 12, 0)), Score(88)>> }

OptClockHours == {3, 9, 20}
OptTimes == { At(d, h, 0) : d \in 7..13, h \in OptClockHours }

InitOpt ==
    /\ now \in OptTimes
    /\ \E tz \in Zones, w \in SleepWindows :
          LET self == SchedulerInit(tz)
          IN  /\ user_timezone = self.user_timezone
              /\ sleep_start = w[1]
              /\ sleep_end = w[2]
              /\ optimal_times = self.optimal_times
              /\ scheduled_posts = self.scheduled_posts
    /\ updates = 0
    /\ loop = [pc |-> "off", wake_at |-> 0]
    /\ call = [op |-> "init"]

TickOpt == TickTo(OptTimes)
UpdateEngagementDataOpt == UpdateEngagementDataOp(OptObservations)

NextOpt ==
    \/ TickOpt
    \/ UpdateEngagementDataOpt
    \/ OptimizeSchedule

SpecOpt == InitOpt /\ [][NextOpt]_vars

-----------------------------------------------------------------------------
(* SpecPick: schedule_post choosing a time, at one clock reading, in each   *)
(* zone and with each sleep window, over catalogs changed by observed       *)
(* engagement.                                                              *)

\* Observations: that of Spec, twitter on a Tuesday at 03:00 scoring 0.90
\* (next to no slot: a new slot, inside the default sleep window), and reddit
\* on a Friday at 12:00 scoring 0.85 (a new slot with the score of reddit's
\* Tuesday slot).
PickObservations ==
    Observations \cup { <<"twitter", AwareUtc(At(8, 3, 0)), Score(90)>>,
                        <<"reddit", AwareUtc(At(11, 12, 0)), Score(85)>> }

\* Monday 09:00, Tuesday 03:00 and 09:00, Thursday 20:00, Saturday 23:00 UTC.
PickTimes == {At(7, 9, 0), At(8, 3, 0), At(8, 9, 0), At(10, 20, 0), At(12, 23, 0)}

\* The sleep windows of SpecOpt, and (0, 23), which leaves one hour a day.
PickWindows == SleepWindows \cup {<<0, 23>>}

InitPick ==
    /\ now \in PickTimes
    /\ \E tz \in Zones, w \in PickWindows :
          LET self == SchedulerInit(tz)
          IN  /\ user_timezone = self.user_timezone
              /\ sleep_start = w[1]
              /\ sleep_end = w[2]
              /\ optimal_times = self.optimal_times
              /\ scheduled_posts = self.scheduled_posts
    /\ updates = 0
    /\ loop = [pc |-> "off", wake_at |-> 0]
    /\ call = [op |-> "init"]

UpdateEngagementDataPick == UpdateEngagementDataOp(PickObservations)

NextPick ==
    \/ UpdateEngagementDataPick
    \/ SchedulePost

SpecPick == InitPick /\ [][NextPick]_vars

-----------------------------------------------------------------------------
(* SpecCat: the catalog under update_engagement_data alone, from the        *)
(* default catalog.                                                         *)

\* Observations on a Tuesday at 08:00, 10:00, 11:00 and 12:00 (reddit's
\* default Tuesday slot is at 09:00), for reddit and for twitter (no slot),
\* scoring 0.60, 0.75, 0.76 and 0.90.
CatPlatforms == {"reddit", "twitter"}
CatHours == {8, 10, 11, 12}
CatScores == {60, 75, 76, 90}
CatObservations ==
    { <<p, AwareUtc(At(8, h, 0)), Score(x)>> : p \in CatPlatforms, h \in CatHours, x \in CatScores }

UpdateEngagementDataCat == UpdateEngagementDataOp(CatObservations)

NextCat == UpdateEngagementDataCat

SpecCat == Init /\ [][NextCat]_vars

-----------------------------------------------------------------------------
(* SpecEma: one observation, next to a default slot, reported again and     *)
(* again.                                                                   *)

\* For each default slot, observations on its weekday at its hour, the hour
\* before and the hour after, scoring 0.00, 0.60, 0.75 and 1.00.
EmaScores == {0, 60, 75, 100}
EmaObservations ==
    { <<_load_default_optimal_times[i].platform,
        AwareUtc(At(DaysPerWeek + _load_default_optimal_times[i].day_of_week,
                    _load_default_optimal_times[i].hour + d, 0)),
        Score(x)>> :
        i \in 1..Len(_load_default_optimal_times), d \in {-1, 0, 1}, x \in EmaScores }

\* The first call reports any of the observations, a later one the
\* observation of the call before it.
RepeatUpdateEngagementData ==
    UpdateEngagementDataOp(IF updates = 0 THEN EmaObservations
                           ELSE {<<call.platform, call.post_time, call.engagement_score>>})

NextEma == RepeatUpdateEngagementData

SpecEma == Init /\ [][NextEma]_vars

-----------------------------------------------------------------------------
(* SpecRange: update_engagement_data with observed scores at the ends of    *)
(* [0, 1] and just above the threshold, at an hour that matches a seeded    *)
(* slot and at hours that match none.                                       *)

RangePlatforms == {"reddit", "twitter"}
RangeHours == {9, 12, 15}
RangeScores == {0, 76, 100}
RangeObservations ==
    { <<p, AwareUtc(At(8, h, 0)), Score(x)>> : p \in RangePlatforms, h \in RangeHours, x \in RangeScores }

UpdateEngagementDataRange == UpdateEngagementDataOp(RangeObservations)

NextRange == UpdateEngagementDataRange

SpecRange == Init /\ [][NextRange]_vars

-----------------------------------------------------------------------------
(* SpecSleep: the sleep window on its own: _is_sleep_time and               *)
(* get_sleep_schedule at every hour of a day, in each zone, for windows     *)
(* that are empty, that lie within a day, and that have sleep_start after   *)
(* sleep_end.                                                               *)

SleepHours == {0, 6, 8, 21, 22}
SleepClockMinutes == {0, 30}
SleepTimes == { At(8, h, m) : h \in 0..23, m \in SleepClockMinutes }

InitSleep ==
    /\ now \in SleepTimes
    /\ \E tz \in Zones, ss \in SleepHours, se \in SleepHours :
          LET self == SchedulerInit(tz)
          IN  /\ user_timezone = self.user_timezone
              /\ sleep_start = ss
              /\ sleep_end = se
              /\ optimal_times = self.optimal_times
              /\ scheduled_posts = self.scheduled_posts
    /\ updates = 0
    /\ loop = [pc |-> "off", wake_at |-> 0]
    /\ call = [op |-> "init"]

\* _is_sleep_time(now), now read in UTC as process_scheduled_posts reads it.
IsSleepTime ==
    /\ call' = [op |-> "_is_sleep_time", dt |-> AwareUtc(now),
                ret |-> Return(IsSleep(Self, AwareUtc(now)))]
    /\ UNCHANGED <<now, user_timezone, sleep_start, sleep_end, optimal_times, scheduled_posts, updates, loop>>

TickSleep == TickTo(SleepTimes)

NextSleep ==
    \/ TickSleep
    \/ IsSleepTime
    \/ GetSleepSchedule

SpecSleep == InitSleep /\ [][NextSleep]_vars

-----------------------------------------------------------------------------
(* SpecFrame: the operations that write state (schedule_post, the pass,     *)
(* update_engagement_data) and the clock, with observations that blend a    *)
(* score, add a slot, and do neither.                                       *)

\* reddit without a preferred time and with Tuesday 03:00 UTC.
FrameRequests ==
    { <<"c1", "reddit", None>>,
      <<"c1", "reddit", AwareUtc(At(8, 3, 0))>> }

\* reddit Tuesday 10:00 scoring 0.60 (blended into reddit's Tuesday slot),
\* twitter Tuesday 03:00 scoring 0.90 (a new slot), twitter Tuesday 12:00
\* scoring 0.60 (no slot within an hour, score too low: nothing).
FrameObservations ==
    { <<"reddit", AwareUtc(At(8, 10, 0)), Score(60)>>,
      <<"twitter", AwareUtc(At(8, 3, 0)), Score(90)>>,
      <<"twitter", AwareUtc(At(8, 12, 0)), Score(60)>> }

SchedulePostFrame == SchedulePostOp(FrameRequests, MaxPosts)
UpdateEngagementDataFrame == UpdateEngagementDataOp(FrameObservations)

NextFrame ==
    \/ Tick
    \/ SchedulePostFrame
    \/ ProcessScheduledPosts
    \/ UpdateEngagementDataFrame

SpecFrame == Init /\ [][NextFrame]_vars

-----------------------------------------------------------------------------
(* Claims *)

Statuses == {"pending", "posted", "failed"}

\* C1: every entry's status is pending, posted or failed, and a step changes
\* the status of an existing entry only from pending to posted or from pending
\* to failed: a posted or failed entry keeps its status under every operation.
C1_StatusLifecycle ==
    /\ [](\A i \in 1..Len(scheduled_posts) : scheduled_posts[i].status \in Statuses)
    /\ [][\A i \in 1..Len(scheduled_posts) :
            /\ i <= Len(scheduled_posts')
            /\ \/ scheduled_posts'[i].status = scheduled_posts[i].status
               \/ /\ scheduled_posts[i].status = "pending"
                  /\ scheduled_posts'[i].status \in {"posted", "failed"}]_vars

\* C1 witness: a sweep ran, outside the sleep window, over an entry that was
\* already failed and whose time had come, and over one it has just posted.
C1_Witness ==
    /\ call.op = "process_scheduled_posts"
    /\ ~IsSleep(Self, AwareUtc(now))
    /\ \E i, j \in 1..Len(scheduled_posts) :
          /\ call.before.scheduled_posts[i].status = "failed"
          /\ scheduled_posts[i].status = "failed"
          /\ scheduled_posts[i].scheduled_time.aware
          /\ DtLe(scheduled_posts[i].scheduled_time, AwareUtc(now))
          /\ call.before.scheduled_posts[j].status = "pending"
          /\ scheduled_posts[j].status = "posted"

\* C2: in a step taken while the clock reads an instant inside the sleep
\* window no entry changes status; in particular every pending entry whose
\* time has come is still pending after a sweep made inside the window.
C2_NoPostingInSleepWindow ==
    [][IsSleep(Self, AwareUtc(now)) =>
          \A i \in 1..Len(scheduled_posts) :
              /\ i <= Len(scheduled_posts')
              /\ scheduled_posts'[i].status = scheduled_posts[i].status]_vars

\* C2 witness: a sweep ran inside the sleep window over a pending entry whose
\* time, an explicit preferred time inside the window, had come.
C2_Witness ==
    /\ call.op = "process_scheduled_posts"
    /\ IsSleep(Self, AwareUtc(now))
    /\ \E i \in 1..Len(scheduled_posts) :
          /\ scheduled_posts[i].status = "pending"
          /\ scheduled_posts[i].scheduled_time.aware
          /\ DtLe(scheduled_posts[i].scheduled_time, AwareUtc(now))
          /\ IsSleep(Self, scheduled_posts[i].scheduled_time)

\* C3: with the clock advancing and the loop running, every pending entry
\* eventually becomes posted or failed.
C3_EveryPendingEntryIsHandled ==
    \A i \in 1..MaxPosts :
        (i <= Len(scheduled_posts) /\ scheduled_posts[i].status = "pending")
            ~> (i <= Len(scheduled_posts) /\ scheduled_posts[i].status # "pending")

\* The entries whose scheduled_time can be compared with the clock.
AllAware == \A i \in 1..Len(scheduled_posts) : scheduled_posts[i].scheduled_time.aware

\* What does hold of the loop: an entry is handled unless some entry carries
\* a naive scheduled_time.
HandledUnlessNaive ==
    \A i \in 1..MaxPosts :
        (i <= Len(scheduled_posts) /\ scheduled_posts[i].status = "pending")
            ~> (i <= Len(scheduled_posts) /\ (scheduled_posts[i].status # "pending" \/ ~AllAware))

\* The entries get_upcoming_posts is to report: pending, and scheduled
\* strictly after now.
Upcoming ==
    {i \in 1..Len(scheduled_posts) :
        /\ scheduled_posts[i].status = "pending"
        /\ scheduled_posts[i].scheduled_time.aware
        /\ Instant(scheduled_posts[i].scheduled_time) > now}

\* The sequence res holds pending entries scheduled strictly after now,
\* earliest first, at most UpcomingLimit of them, and none that is later than
\* an upcoming entry it leaves out.
IsUpcomingResult(res) ==
    /\ Len(res) <= UpcomingLimit
    /\ Len(res) = (IF Cardinality(Upcoming) < UpcomingLimit THEN Cardinality(Upcoming)
                   ELSE UpcomingLimit)
    /\ \A k \in 1..Len(res) : \E i \in Upcoming : res[k] = scheduled_posts[i]
    /\ \A k \in 1..Len(res) - 1 :
          Instant(res[k].scheduled_time) <= Instant(res[k + 1].scheduled_time)
    /\ \A i \in Upcoming :
          \/ \E k \in 1..Len(res) : res[k] = scheduled_posts[i]
          \/ \A k \in 1..Len(res) :
                Instant(res[k].scheduled_time) <= Instant(scheduled_posts[i].scheduled_time)

\* C4: get_upcoming_posts returns at most ten entries, each pending and
\* scheduled strictly after now, in ascending order of scheduled time.
C4_UpcomingPosts ==
    call.op = "get_upcoming_posts" =>
        /\ ~IsError(call.ret)
        /\ IsUpcomingResult(call.ret.value)

\* What does hold of get_upcoming_posts: it returns that list unless some
\* entry carries a naive scheduled_time.
UpcomingPostsUnlessNaive ==
    (call.op = "get_upcoming_posts" /\ AllAware) =>
        /\ ~IsError(call.ret)
        /\ IsUpcomingResult(call.ret.value)

\* C5: a step made by get_upcoming_posts, optimize_schedule or
\* get_sleep_schedule leaves the slot catalog and the entry list as they were.
C5_QueriesReadOnly ==
    [][call'.op \in {"get_upcoming_posts", "optimize_schedule", "get_sleep_schedule"}
          => UNCHANGED <<optimal_times, scheduled_posts>>]_vars

\* C5 witness: get_upcoming_posts has returned two entries in the order
\* opposite to the one they have in the entry list.
C5_Witness ==
    /\ call.op = "get_upcoming_posts"
    /\ ~IsError(call.ret)
    /\ Len(call.ret.value) = 2
    /\ Len(scheduled_posts) = 2
    /\ call.ret.value[1] = scheduled_posts[2]
    /\ call.ret.value[2] = scheduled_posts[1]

\* C6: the next occurrence computed for a slot is strictly later than the
\* query instant, and in the user's zone its weekday, hour and minute are the
\* slot's day_of_week, hour and minute.
C6_NextOccurrenceLaterAndMatching ==
    call.op = "_get_next_occurrence" =>
        LET local == Astimezone(call.ret.value, user_timezone)
        IN  /\ ~IsError(call.ret)
            /\ call.ret.value.aware
            /\ Instant(call.ret.value) > now
            /\ Weekday(local) = call.slot.day_of_week
            /\ Hour(local) = call.slot.hour
            /\ Minute(local) = call.slot.minute

\* C6 witness: the slot's weekday and time of day are exactly those of the
\* query instant in the user's zone, in a zone other than UTC.
C6_Witness ==
    /\ call.op = "_get_next_occurrence"
    /\ user_timezone # "UTC"
    /\ call.slot.day_of_week = Weekday(call.from_time)
    /\ call.slot.hour = Hour(call.from_time)
    /\ call.slot.minute = Minute(call.from_time)
    /\ Instant(call.ret.value) = now + DaysPerWeek * MinutesPerDay

\* The ranked list returned by the last optimize_schedule call.
Ranked == call.ret.value.optimal_schedule

\* The next occurrence of catalog slot i from the current clock reading, in
\* the user's zone, and whether its hour lies in [sleep_start, sleep_end).
OccurrenceOf(i) == _get_next_occurrence(optimal_times[i], DatetimeNow(now, user_timezone))
InWindow(hour) == sleep_start <= hour /\ hour < sleep_end
Surviving == {i \in 1..Len(optimal_times) : ~InWindow(optimal_times[i].hour)}
ItemOf(i) == ScheduleItem(optimal_times[i], OccurrenceOf(i))

\* The hour written in an item's time.
ItemHour(item) == (item.time[1] % MinutesPerDay) \div 60

\* C7: no item of the ranked list has a time whose local hour is inside the
\* sleep window, and every catalog slot whose next occurrence is outside the
\* window is in the list exactly once: the list has one item per such slot.
C7_SleepFilter ==
    call.op = "optimize_schedule" =>
        /\ ~IsError(call.ret)
        /\ \A k \in 1..Len(Ranked) :
              /\ ~InWindow(ItemHour(Ranked[k]))
              /\ Ranked[k].time[2] = UtcOffset(user_timezone)
        /\ Len(Ranked) = Cardinality(Surviving)
        /\ \A i \in Surviving :
              Cardinality({k \in 1..Len(Ranked) : Ranked[k] = ItemOf(i)}) = 1

\* C7 witness: the catalog has a slot inside the window and slots outside it,
\* in a zone other than UTC, and the list has been computed.
C7_Witness ==
    /\ call.op = "optimize_schedule"
    /\ user_timezone # "UTC"
    /\ Surviving # {}
    /\ \E i \in 1..Len(optimal_times) : i \notin Surviving
    /\ Len(Ranked) = Cardinality(Surviving)

\* The place in the catalog of the slot an item was made from.
SlotOf(item) == CHOOSE i \in 1..Len(optimal_times) : ItemOf(i) = item

\* C8: the ranked list is in non-increasing order of engagement_score, and
\* items of equal score are in the order of their slots in the catalog.
C8_RankedStable ==
    call.op = "optimize_schedule" =>
        \A k, l \in 1..Len(Ranked) :
            k < l =>
                /\ Ranked[k].engagement_score >= Ranked[l].engagement_score
                /\ Ranked[k].engagement_score = Ranked[l].engagement_score
                      => SlotOf(Ranked[k]) < SlotOf(Ranked[l])

\* C8 witness: after an update that changed the catalog the list holds a
\* slot added by an update next to a default slot of the same score.
C8_Witness ==
    /\ call.op = "optimize_schedule"
    /\ Len(optimal_times) > Len(_load_default_optimal_times)
    /\ \E k \in 1..(Len(Ranked) - 1) :
          /\ Ranked[k].engagement_score = Ranked[k + 1].engagement_score
          /\ SlotOf(Ranked[k + 1]) > Len(_load_default_optimal_times)

\* C9: next_post_time is the time of the highest-scored occurrence outside the
\* sleep window (of the first such slot in the catalog), not of the nearest
\* one; when no slot's occurrence is outside the window the list is empty and
\* next_post_time is None; the call never raises.
C9_NextPostTime ==
    call.op = "optimize_schedule" =>
        /\ ~IsError(call.ret)
        /\ Surviving = {} =>
              /\ Ranked = <<>>
              /\ call.ret.value.next_post_time = <<>>
        /\ Surviving # {} =>
              \E i \in Surviving :
                  /\ \A j \in Surviving :
                        \/ optimal_times[j].engagement_score < optimal_times[i].engagement_score
                        \/ /\ optimal_times[j].engagement_score = optimal_times[i].engagement_score
                           /\ i <= j
                  /\ call.ret.value.next_post_time = <<Isoformat(OccurrenceOf(i))>>
                  /\ Ranked[1] = ItemOf(i)

\* C9 witness: every slot of the catalog is inside the sleep window, and the
\* call has returned an empty list and no next_post_time.
C9_Witness ==
    /\ call.op = "optimize_schedule"
    /\ Surviving = {}
    /\ Len(optimal_times) >= Len(_load_default_optimal_times)
    /\ ~IsError(call.ret)
    /\ Ranked = <<>>
    /\ call.ret.value.next_post_time = <<>>

\* A further case of C9: the highest-scored occurrence is returned although
\* another surviving occurrence is nearer in time.
C9_NotNearest ==
    /\ call.op = "optimize_schedule"
    /\ Len(Ranked) >= 2
    /\ \E k \in 2..Len(Ranked) : Ranked[k].time[1] < Ranked[1].time[1]

\* The slots of the platform of the last schedule_post call, in the catalog
\* as it was before the call, whose hour is outside the sleep window.
Candidates ==
    {i \in 1..Len(call.before.optimal_times) :
        /\ call.before.optimal_times[i].platform = call.platform
        /\ ~InWindow(call.before.optimal_times[i].hour)}

\* Slot i is the highest-scored candidate, the earliest in the catalog among
\* those of equal score.
IsBest(i) ==
    \A j \in Candidates :
        \/ call.before.optimal_times[j].engagement_score < call.before.optimal_times[i].engagement_score
        \/ /\ call.before.optimal_times[j].engagement_score = call.before.optimal_times[i].engagement_score
           /\ i <= j

CandidateTime(i) == _get_next_occurrence(call.before.optimal_times[i], DatetimeNow(now, user_timezone))

\* C10: schedule_post without a preferred time, for a platform with a slot
\* whose next occurrence is outside the sleep window, schedules the entry at
\* the next occurrence of the platform's highest-scored such slot (the
\* earliest in the catalog among equal scores), and that time is outside the
\* sleep window.
C10_BestSlotOfPlatform ==
    (call.op = "schedule_post" /\ call.preferred_time = None /\ Candidates # {}) =>
        /\ ~IsError(call.ret)
        /\ \E i \in Candidates :
              /\ IsBest(i)
              /\ call.ret.value.scheduled_time = CandidateTime(i)
        /\ call.ret.value.scheduled_time.aware
        /\ ~InWindow(Hour(Astimezone(call.ret.value.scheduled_time, user_timezone)))
        /\ scheduled_posts[Len(scheduled_posts)] = call.ret.value

\* C10 witness: the time chosen is that of the earlier of two slots of equal
\* score, although the other one's occurrence is nearer, and a slot of
\* another platform has a higher score.
C10_Witness ==
    /\ call.op = "schedule_post"
    /\ call.preferred_time = None
    /\ \E i, j \in Candidates :
          /\ IsBest(i)
          /\ i < j
          /\ call.before.optimal_times[j].engagement_score = call.before.optimal_times[i].engagement_score
          /\ Instant(CandidateTime(j)) < Instant(CandidateTime(i))
          /\ call.ret.value.scheduled_time = CandidateTime(i)
    /\ \E k \in 1..Len(call.before.optimal_times) :
          /\ call.before.optimal_times[k].platform # call.platform
          /\ \A i \in Candidates :
                call.before.optimal_times[k].engagement_score > call.before.optimal_times[i].engagement_score

\* C11: schedule_post with a preferred time stores that time unchanged as
\* the entry's scheduled_time, whatever the sleep window, the clock and the
\* catalog are.
C11_PreferredTimeVerbatim ==
    (call.op = "schedule_post" /\ call.preferred_time # None) =>
        /\ ~IsError(call.ret)
        /\ call.ret.value.scheduled_time = call.preferred_time
        /\ scheduled_posts[Len(scheduled_posts)].scheduled_time = call.preferred_time

\* C11 witness: the preferred time stored is inside the sleep window and in
\* the past, and the catalog holds a slot of the platform outside the window.
C11_Witness ==
    /\ call.op = "schedule_post"
    /\ call.preferred_time # None
    /\ call.preferred_time.aware
    /\ IsSleep(Self, call.preferred_time)
    /\ Instant(call.preferred_time) < now
    /\ Candidates # {}
    /\ call.ret.value.scheduled_time = call.preferred_time

\* The clock reading in the user's zone moved forward by k hours.
HoursOn(k) == [DatetimeNow(now, user_timezone) EXCEPT !.wall = @ + 60 * k]

\* C12: schedule_post without a preferred time, for a platform with no slot
\* outside the sleep window, schedules the entry at the first of now, now + 1
\* hour, ..., now + 23 hours whose local hour is outside the window: a time
\* within the next 24 hours that is not in the window.
C12_FallbackWalk ==
    (call.op = "schedule_post" /\ call.preferred_time = None /\ Candidates = {}) =>
        /\ ~IsError(call.ret)
        /\ \E k \in 0..23 :
              /\ \A j \in 0..(k - 1) : InWindow(Hour(HoursOn(j)))
              /\ ~InWindow(Hour(HoursOn(k)))
              /\ call.ret.value.scheduled_time = HoursOn(k)
        /\ Instant(call.ret.value.scheduled_time) >= now
        /\ Instant(call.ret.value.scheduled_time) < now + MinutesPerDay
        /\ ~InWindow(Hour(Astimezone(call.ret.value.scheduled_time, user_timezone)))

\* C12 witness: the platform has slots in the catalog, every one of them
\* inside the window, and the walk took more than twelve steps.
C12_Witness ==
    /\ call.op = "schedule_post"
    /\ call.preferred_time = None
    /\ Candidates = {}
    /\ \E i \in 1..Len(call.before.optimal_times) :
          call.before.optimal_times[i].platform = call.platform
    /\ Instant(call.ret.value.scheduled_time) > now + 12 * 60

\* The platform has no slot in the catalog, now is inside the window, and the
\* time chosen is later than now.
C12_AbsentPlatform ==
    /\ call.op = "schedule_post"
    /\ call.preferred_time = None
    /\ \A i \in 1..Len(call.before.optimal_times) :
          call.before.optimal_times[i].platform # call.platform
    /\ Instant(call.ret.value.scheduled_time) > now

\* C13: a schedule_post call returns an entry, pending and with the content
\* id and platform given, and the entry list after it is the list before it
\* with that entry appended; the catalog is as it was.
C13_AppendsOnePendingEntry ==
    call.op = "schedule_post" =>
        /\ ~IsError(call.ret)
        /\ call.ret.value.status = "pending"
        /\ call.ret.value.content_id = call.content_id
        /\ call.ret.value.platform = call.platform
        /\ scheduled_posts = Append(call.before.scheduled_posts, call.ret.value)
        /\ optimal_times = call.before.optimal_times

\* C13 witness: the call, for a platform with no slot in the catalog, has
\* appended an entry equal in every field to one the list already held.
C13_Witness ==
    /\ call.op = "schedule_post"
    /\ \A i \in 1..Len(optimal_times) : optimal_times[i].platform # call.platform
    /\ Len(scheduled_posts) >= 2
    /\ \E i \in 1..Len(call.before.scheduled_posts) : scheduled_posts[i] = call.ret.value

\* The slots of the catalog as it was before the last update_engagement_data
\* call that have the call's platform, the weekday of its post_time and an
\* hour within one of its post_time's hour.
Matches ==
    {i \in 1..Len(call.before.optimal_times) :
        /\ call.before.optimal_times[i].platform = call.platform
        /\ call.before.optimal_times[i].day_of_week = Weekday(call.post_time)
        /\ call.before.optimal_times[i].hour - Hour(call.post_time) \in {-1, 0, 1}}

\* C14: when some slot matches, update_engagement_data gives the first
\* matching slot in catalog order the score old * 0.8 + observed * 0.2 and
\* leaves everything else of the catalog as it was, adding no slot.
C14_FirstMatchBlended ==
    (call.op = "update_engagement_data" /\ Matches # {}) =>
        \E k \in Matches :
            /\ \A j \in Matches : k <= j
            /\ Len(optimal_times) = Len(call.before.optimal_times)
            /\ 5 * optimal_times[k].engagement_score =
                   4 * call.before.optimal_times[k].engagement_score + call.engagement_score
            /\ optimal_times[k] =
                   [call.before.optimal_times[k] EXCEPT !.engagement_score = optimal_times[k].engagement_score]
            /\ \A i \in 1..Len(optimal_times) : i # k => optimal_times[i] = call.before.optimal_times[i]

\* C14 witness: two slots matched, and the observed score, above 0.75, was
\* blended into the earlier one.
C14_Witness ==
    /\ call.op = "update_engagement_data"
    /\ Cardinality(Matches) = 2
    /\ call.engagement_score > Score(75)
    /\ \E k \in Matches :
          /\ \A j \in Matches : k <= j
          /\ optimal_times[k].engagement_score # call.before.optimal_times[k].engagement_score

\* C15: when no slot matches, update_engagement_data appends one slot with
\* the platform, post_time's weekday and hour, minute 0 and the observed
\* score if that score is above 0.75, and otherwise leaves the catalog as it
\* was; it raises nothing.
C15_NewSlotAboveThreshold ==
    (call.op = "update_engagement_data" /\ Matches = {}) =>
        /\ ~IsError(call.ret)
        /\ IF call.engagement_score > Score(75)
           THEN optimal_times =
                    Append(call.before.optimal_times,
                           [hour |-> Hour(call.post_time), minute |-> 0,
                            day_of_week |-> Weekday(call.post_time),
                            engagement_score |-> call.engagement_score,
                            platform |-> call.platform])
           ELSE optimal_times = call.before.optimal_times

\* C15 witness: an observation of exactly 0.75 matching no slot has left the
\* catalog as it was.
C15_Witness ==
    /\ call.op = "update_engagement_data"
    /\ Matches = {}
    /\ call.engagement_score = Score(75)
    /\ optimal_times = call.before.optimal_times

\* An observation of 0.76 matching no slot has added a slot.
C15_Appended ==
    /\ call.op = "update_engagement_data"
    /\ Matches = {}
    /\ call.engagement_score = Score(76)
    /\ Len(optimal_times) = Len(call.before.optimal_times) + 1

\* C17: no two distinct slots of the catalog have the same platform, the
\* same day_of_week and hours that differ by at most one.
C17_BucketInvariant ==
    \A i, j \in 1..Len(optimal_times) :
        (/\ i < j
         /\ optimal_times[i].platform = optimal_times[j].platform
         /\ optimal_times[i].day_of_week = optimal_times[j].day_of_week)
        => optimal_times[i].hour - optimal_times[j].hour \notin {-1, 0, 1}

\* C17 witness: updates have added a slot two hours from a slot of the same
\* platform and weekday, and an observation at the hour between them has
\* been blended.
C17_Witness ==
    /\ call.op = "update_engagement_data"
    /\ Len(optimal_times) > Len(_load_default_optimal_times)
    /\ Cardinality(Matches) = 2
    /\ Len(optimal_times) = Len(call.before.optimal_times)

\* C16: after n reports of the same observation X next to a slot that
\* started at s0 the slot's score s satisfies s - X = 0.8^n * (s0 - X): it
\* lies between s0 and X, and each report multiplies its distance to X by
\* 0.8.  From 0.80 with X = 0.60 it is 0.76 after one report and 0.728 after
\* two.
C16_GeometricApproach ==
    call.op = "update_engagement_data" =>
        /\ Matches # {}
        /\ \A k \in Matches :
              LET s0 == _load_default_optimal_times[k].engagement_score
                  X == call.engagement_score
                  before == call.before.optimal_times[k].engagement_score
                  s == optimal_times[k].engagement_score
              IN  /\ Pow(5, updates) * (s - X) = Pow(4, updates) * (s0 - X)
                  /\ 5 * (s - X) = 4 * (before - X)
                  /\ \/ s0 <= s /\ s <= X
                     \/ X <= s /\ s <= s0
                  /\ (s0 = Score(80) /\ X = Score(60) /\ updates = 1) => s = Score(76)
                  /\ (s0 = Score(80) /\ X = Score(60) /\ updates = 2) => 1000 * s = 728 * ScoreScale

\* C16 witness: 0.60 has been reported twice next to the slot that started at
\* 0.80, whose score is now 0.728.
C16_Witness ==
    /\ call.op = "update_engagement_data"
    /\ updates = 2
    /\ call.engagement_score = Score(60)
    /\ \E k \in Matches :
          /\ _load_default_optimal_times[k].engagement_score = Score(80)
          /\ 1000 * optimal_times[k].engagement_score = 728 * ScoreScale

\* The hour of the clock reading in the user's zone.
LocalHour == Hour(DatetimeNow(now, user_timezone))

\* C18: _is_sleep_time holds of an hour h exactly when h is in the half-open
\* window from sleep_start to sleep_end: sleep_start <= h < sleep_end when
\* sleep_start < sleep_end, no hour when they are equal, and h >= sleep_start
\* or h < sleep_end when sleep_start > sleep_end.
C18_WindowMembership ==
    call.op = "_is_sleep_time" =>
        (call.ret.value <=>
            \/ sleep_start < sleep_end /\ sleep_start <= LocalHour /\ LocalHour < sleep_end
            \/ sleep_start > sleep_end /\ (LocalHour >= sleep_start \/ LocalHour < sleep_end))

\* What does hold of _is_sleep_time: it holds of h exactly when
\* sleep_start <= h < sleep_end, so of no hour when sleep_start >= sleep_end.
SleepTimeWithoutWrap ==
    call.op = "_is_sleep_time" =>
        (call.ret.value <=> (sleep_start <= LocalHour /\ LocalHour < sleep_end))

\* _is_sleep_time has answered no at an hour after sleep_start, with
\* sleep_start after sleep_end.
SleepTimeMissedAfterStart ==
    /\ call.op = "_is_sleep_time"
    /\ sleep_start > sleep_end
    /\ LocalHour >= sleep_start
    /\ ~call.ret.value

\* The wall-clock fields of the clock reading in the user's zone, and those
\* written in the next_sleep_time and next_wake_time of the last
\* get_sleep_schedule call.
LocalWall == DatetimeNow(now, user_timezone).wall
NextSleepWall == call.ret.value.next_sleep_time[1]
NextWakeWall == call.ret.value.next_wake_time[1]

\* wall is the first instant after the clock reading at which the local time
\* of day is hour:00.
IsNextBoundary(wall, hour) ==
    /\ wall % MinutesPerDay = hour * 60
    /\ wall > LocalWall
    /\ wall - LocalWall <= MinutesPerDay

\* C19: get_sleep_schedule reports as next_sleep_time the first sleep_start
\* boundary after now, as next_wake_time the first sleep_end boundary after
\* now, and as currently_sleeping whether now's local hour is in the window.
C19_NextSleepAndWake ==
    call.op = "get_sleep_schedule" =>
        /\ ~IsError(call.ret)
        /\ IsNextBoundary(NextSleepWall, sleep_start)
        /\ IsNextBoundary(NextWakeWall, sleep_end)
        /\ call.ret.value.currently_sleeping <=> InWindow(LocalHour)

\* What does hold of get_sleep_schedule with a window that lies within a day:
\* next_sleep_time and currently_sleeping are as stated, and next_wake_time
\* is the first sleep_end boundary after the reported next_sleep_time.
WakeFollowsNextSleep ==
    (call.op = "get_sleep_schedule" /\ sleep_start < sleep_end) =>
        /\ IsNextBoundary(NextSleepWall, sleep_start)
        /\ NextWakeWall = NextSleepWall + (sleep_end - sleep_start) * 60
        /\ call.ret.value.currently_sleeping <=> InWindow(LocalHour)

\* C20: the loop goes on for ever: a pass is always followed by a sleep, of
\* 60 s when it returned and of 300 s when it raised, and every sleep is
\* followed by another pass.
C20_LoopNeverStops ==
    /\ [][(loop.pc = "pass" /\ loop'.pc # "pass") =>
             /\ call'.op = "process_scheduled_posts"
             /\ loop'.pc = (IF IsError(call'.ret) THEN "sleep_on_error" ELSE "sleep")
             /\ loop'.wake_at = now + (IF IsError(call'.ret) THEN SleepOnError ELSE SleepOk)]_vars
    /\ []<>(loop.pc = "pass")
    /\ []<>(loop.pc = "sleep" \/ loop.pc = "sleep_on_error")
    /\ (loop.pc = "sleep_on_error") ~> (loop.pc = "pass")

\* C20 witness: the loop is about to make a pass two clock readings after the
\* scheduling of an entry with a naive time, which is still pending: the pass
\* at the reading in between raised.
C20_Witness ==
    /\ loop.pc = "pass"
    /\ call.op = "wake"
    /\ \E i \in 1..Len(scheduled_posts) :
          /\ ~scheduled_posts[i].scheduled_time.aware
          /\ scheduled_posts[i].status = "pending"
          /\ Cardinality({t \in ClockTimes : Instant(scheduled_posts[i].created_at) < t /\ t <= now}) >= 2

\* The entry list a pass over the list of call.before makes at the current
\* clock reading when every hand-off succeeds.
AllHandedOff ==
    process_scheduled_posts(call.before, now,
        [i \in 1..Len(call.before.scheduled_posts) |-> "posted"]).self.scheduled_posts

\* C21: a pass in which a hand-off failed has marked that entry failed and
\* has handled the same entries as it would have with every hand-off
\* succeeding; and a failed entry is never changed again by any step.
C21_FailureDoesNotStopTheSweep ==
    /\ [](call.op = "process_scheduled_posts" =>
            \A i \in 1..Len(scheduled_posts) :
                /\ (scheduled_posts[i].status # call.before.scheduled_posts[i].status)
                       => scheduled_posts[i].status \in {"posted", "failed"}
                /\ (scheduled_posts[i].status = "pending") <=> (AllHandedOff[i].status = "pending"))
    /\ [][\A i \in 1..Len(scheduled_posts) :
             scheduled_posts[i].status = "failed" =>
                 /\ i <= Len(scheduled_posts')
                 /\ scheduled_posts'[i] = scheduled_posts[i]]_vars

\* C21 witness: in one pass the hand-off of the first entry failed and the
\* second entry was handed off and posted.
C21_Witness ==
    /\ call.op = "process_scheduled_posts"
    /\ Len(scheduled_posts) >= 2
    /\ call.before.scheduled_posts[1].status = "pending"
    /\ scheduled_posts[1].status = "failed"
    /\ call.before.scheduled_posts[2].status = "pending"
    /\ scheduled_posts[2].status = "posted"

\* C22: the next occurrence of a slot is its earliest weekly occurrence
\* after now: it has the slot's weekday and time of day, is later than now,
\* and is at most seven days after now, so a slot of today's weekday whose
\* time is later today occurs today.
C22_EarliestOccurrence ==
    call.op = "_get_next_occurrence" =>
        LET local == Astimezone(call.ret.value, user_timezone)
        IN  /\ Weekday(local) = call.slot.day_of_week
            /\ Hour(local) = call.slot.hour
            /\ Minute(local) = call.slot.minute
            /\ Instant(call.ret.value) > now
            /\ Instant(call.ret.value) - now <= DaysPerWeek * MinutesPerDay

\* What does hold of _get_next_occurrence: the occurrence is on one of the
\* seven dates that follow today's, never on today's.
OccurrenceNeverToday ==
    call.op = "_get_next_occurrence" =>
        /\ DateOf(call.ret.value) - DateOf(call.from_time) \in 1..DaysPerWeek
        /\ (call.slot.day_of_week = Weekday(call.from_time))
               => DateOf(call.ret.value) = DateOf(call.from_time) + DaysPerWeek

\* The slot is of today's weekday at a time later today, and the occurrence
\* computed is more than seven days after now.
OccurrenceLaterTodaySkipped ==
    /\ call.op = "_get_next_occurrence"
    /\ call.slot.day_of_week = Weekday(call.from_time)
    /\ call.slot.hour > Hour(call.from_time)
    /\ Instant(call.ret.value) - now > DaysPerWeek * MinutesPerDay

\* Entry i is as it was before the last pass.
LeftAlone(i) == scheduled_posts[i] = call.before.scheduled_posts[i]

\* C23: after a pass made outside the sleep window no entry is pending with
\* scheduled_time <= now; the entries scheduled after now and those that were
\* posted or failed are as they were, an entry the pass handled differs from
\* what it was in its status only, and the catalog is as it was.
C23_PassHandlesEveryDueEntry ==
    (call.op = "process_scheduled_posts" /\ ~IsSleep(Self, AwareUtc(now))) =>
        /\ Len(scheduled_posts) = Len(call.before.scheduled_posts)
        /\ optimal_times = call.before.optimal_times
        /\ \A i \in 1..Len(scheduled_posts) :
              /\ ~(/\ scheduled_posts[i].status = "pending"
                   /\ scheduled_posts[i].scheduled_time.aware
                   /\ Instant(scheduled_posts[i].scheduled_time) <= now)
              /\ scheduled_posts[i] =
                     [call.before.scheduled_posts[i] EXCEPT !.status = scheduled_posts[i].status]
              /\ call.before.scheduled_posts[i].status # "pending" => LeftAlone(i)
              /\ (/\ scheduled_posts[i].scheduled_time.aware
                  /\ Instant(scheduled_posts[i].scheduled_time) > now) => LeftAlone(i)

\* What does hold of a pass outside the sleep window: it handles every due
\* entry unless some pending entry carries a naive scheduled_time.
PassHandlesDueUnlessNaive ==
    (/\ call.op = "process_scheduled_posts"
     /\ ~IsSleep(Self, AwareUtc(now))
     /\ \A i \in 1..Len(scheduled_posts) :
           call.before.scheduled_posts[i].status = "pending" => scheduled_posts[i].scheduled_time.aware)
    => /\ ~IsError(call.ret)
       /\ \A i \in 1..Len(scheduled_posts) :
             /\ ~(scheduled_posts[i].status = "pending" /\ Instant(scheduled_posts[i].scheduled_time) <= now)
             /\ scheduled_posts[i] =
                    [call.before.scheduled_posts[i] EXCEPT !.status = scheduled_posts[i].status]
             /\ (\/ call.before.scheduled_posts[i].status # "pending"
                 \/ Instant(scheduled_posts[i].scheduled_time) > now) => LeftAlone(i)

\* A pass outside the sleep window has raised and left pending a due entry
\* that comes after a naive one.
DueEntryLeftBehindNaive ==
    /\ call.op = "process_scheduled_posts"
    /\ ~IsSleep(Self, AwareUtc(now))
    /\ IsError(call.ret)
    /\ \E i, j \in 1..Len(scheduled_posts) :
          /\ i < j
          /\ ~scheduled_posts[i].scheduled_time.aware
          /\ scheduled_posts[j].scheduled_time.aware
          /\ scheduled_posts[j].status = "pending"
          /\ Instant(scheduled_posts[j].scheduled_time) <= now

\* C24: no step removes or reorders an entry; an entry already in the list
\* keeps its id, content_id, platform, scheduled_time and created_at, and its
\* status changes only in a step of process_scheduled_posts.
C24_EntryListAppendOnly ==
    [][/\ Len(scheduled_posts') >= Len(scheduled_posts)
       /\ \A i \in 1..Len(scheduled_posts) :
             /\ scheduled_posts'[i] = [scheduled_posts[i] EXCEPT !.status = scheduled_posts'[i].status]
             /\ scheduled_posts'[i].status # scheduled_posts[i].status
                   => call'.op = "process_scheduled_posts"]_vars

\* C24 witness: schedule_post has appended an entry behind one that a pass
\* had posted before.
C24_Witness ==
    /\ call.op = "schedule_post"
    /\ Len(scheduled_posts) >= 2
    /\ scheduled_posts[1].status = "posted"
    /\ scheduled_posts[Len(scheduled_posts)].status = "pending"
    /\ call.before.scheduled_posts = SubSeq(scheduled_posts, 1, Len(scheduled_posts) - 1)

\* C25: no step removes or reorders a slot or changes a slot's platform,
\* day_of_week, hour or minute; only a step of update_engagement_data changes
\* the catalog, and it changes the score of one slot, or appends one slot,
\* or changes nothing.
C25_CatalogOnlyGrows ==
    [][/\ Len(optimal_times') >= Len(optimal_times)
       /\ \A i \in 1..Len(optimal_times) :
             optimal_times'[i] = [optimal_times[i] EXCEPT !.engagement_score = optimal_times'[i].engagement_score]
       /\ optimal_times' # optimal_times => call'.op = "update_engagement_data"
       /\ Cardinality({i \in 1..Len(optimal_times) :
                          optimal_times'[i].engagement_score # optimal_times[i].engagement_score})
              + (Len(optimal_times') - Len(optimal_times)) <= 1]_vars

\* C25 witness: a pass has handled an entry, with a catalog in which one
\* update had changed a default slot's score and another had added a slot,
\* and has left that catalog as it was.
C25_Witness ==
    /\ call.op = "process_scheduled_posts"
    /\ scheduled_posts # call.before.scheduled_posts
    /\ Len(optimal_times) = Len(_load_default_optimal_times) + 1
    /\ \E i \in 1..Len(_load_default_optimal_times) :
          /\ optimal_times[i].engagement_score # _load_default_optimal_times[i].engagement_score
          /\ optimal_times[i] = [_load_default_optimal_times[i] EXCEPT
                                    !.engagement_score = optimal_times[i].engagement_score]
    /\ optimal_times = call.before.optimal_times

\* C26: a step of update_engagement_data leaves the entry list as it was.
C26_UpdatesLeaveEntriesAlone ==
    [][call'.op = "update_engagement_data" => scheduled_posts' = scheduled_posts]_vars

\* C26 witness: after an update the list still holds, at the time chosen for
\* it, an entry scheduled at the slot that was the platform's best before the
\* update and no longer is.
C26_Witness ==
    /\ call.op = "update_engagement_data"
    /\ scheduled_posts = call.before.scheduled_posts
    /\ \E i \in 1..Len(scheduled_posts) :
          /\ scheduled_posts[i].status = "pending"
          /\ scheduled_posts[i].scheduled_time =
                 _find_next_optimal_slot(call.before, now, scheduled_posts[i].platform)
          /\ scheduled_posts[i].scheduled_time #
                 _find_next_optimal_slot(Self, now, scheduled_posts[i].platform)

\* C27: with the loop and the handlers interleaved, no step loses an entry
\* or a slot (both lists keep what they held, in order), a schedule_post step
\* appends its entry to the list as it is at that step, a score changes only
\* in a step of update_engagement_data, and an entry that is posted or failed
\* is not handed off again.
C27_InterleavingLosesNothing ==
    [][/\ Len(scheduled_posts') >= Len(scheduled_posts)
       /\ \A i \in 1..Len(scheduled_posts) :
             /\ scheduled_posts'[i] = [scheduled_posts[i] EXCEPT !.status = scheduled_posts'[i].status]
             /\ scheduled_posts[i].status # "pending" => scheduled_posts'[i] = scheduled_posts[i]
       /\ call'.op = "schedule_post" => scheduled_posts' = Append(scheduled_posts, call'.ret.value)
       /\ Len(optimal_times') >= Len(optimal_times)
       /\ \A i \in 1..Len(optimal_times) :
             optimal_times'[i] = [optimal_times[i] EXCEPT !.engagement_score = optimal_times'[i].engagement_score]
       /\ optimal_times' # optimal_times => call'.op = "update_engagement_data"]_vars

\* C27 witness: while the loop sleeps after a pass that posted the first
\* entry, a handler has appended a second entry, with a catalog that an
\* update has changed.
C27_Witness ==
    /\ loop.pc = "sleep"
    /\ call.op = "schedule_post"
    /\ Len(scheduled_posts) = 2
    /\ scheduled_posts[1].status = "posted"
    /\ scheduled_posts[2].status = "pending"
    /\ optimal_times # _load_default_optimal_times

\* C28: the id of an entry, made of its platform, its content id and the
\* epoch seconds of its scheduled time, is a key of the entry list: no two
\* entries at different positions have the same id.
C28_IdIsAKey ==
    \A i, j \in 1..Len(scheduled_posts) :
        scheduled_posts[i].id = scheduled_posts[j].id => i = j

\* What does happen: schedule_post called again with the arguments of an
\* earlier call, at the same reading of the clock, appends a second entry
\* under the id of the first.
SameCallTwiceSameId ==
    /\ call.op = "schedule_post"
    /\ Len(scheduled_posts) = Len(call.before.scheduled_posts) + 1
    /\ \E i \in 1..Len(call.before.scheduled_posts) :
          /\ scheduled_posts[i].id = call.ret.value.id
          /\ scheduled_posts[i].scheduled_time = call.ret.value.scheduled_time

\* C29: every entry has a timezone-aware scheduled_time, whichever way it was
\* made, so get_upcoming_posts and process_scheduled_posts never fail when
\* they compare it with the clock.
C29_EntriesAwareAndComparable ==
    /\ \A i \in 1..Len(scheduled_posts) : Comparable(scheduled_posts[i].scheduled_time, DatetimeNow(now, "UTC"))
    /\ call.op \in {"get_upcoming_posts", "process_scheduled_posts"} => ~IsError(call.ret)

\* What does hold: a scheduled_time that schedule_post chose itself, from
\* the catalog or by the fallback, is timezone-aware.
ChosenTimeIsAware ==
    (call.op = "schedule_post" /\ call.preferred_time = None)
        => call.ret.value.scheduled_time.aware

\* What does happen: a pass has raised at a naive entry.
PassAbortedAtNaiveEntry ==
    /\ call.op = "process_scheduled_posts"
    /\ IsError(call.ret)
    /\ \E i \in 1..Len(scheduled_posts) :
          /\ ~scheduled_posts[i].scheduled_time.aware
          /\ scheduled_posts[i].status = "pending"

\* C30: with every observed score in [0, 1], the engagement_score of every
\* slot is in [0, 1] after any sequence of updates, and a slot that an
\* update appends to the catalog is appended with a score above 0.75.
C30_ScoresStayInRange ==
    /\ [](\A i \in 1..Len(optimal_times) :
             /\ optimal_times[i].engagement_score >= Score(0)
             /\ optimal_times[i].engagement_score <= Score(100))
    /\ [][Len(optimal_times') > Len(optimal_times) =>
             /\ call'.engagement_score >= Score(0)
             /\ call'.engagement_score <= Score(100)
             /\ optimal_times'[Len(optimal_times')].engagement_score = call'.engagement_score
             /\ optimal_times'[Len(optimal_times')].engagement_score > Score(NewSlotThreshold)]_vars

\* C30 witness: a slot that an update appended with a score above 0.75 has
\* since been blended with an observation of 0 and is below 0.75 now.
C30_Witness ==
    /\ call.op = "update_engagement_data"
    /\ call.engagement_score = Score(0)
    /\ Len(optimal_times) > Len(_load_default_optimal_times)
    /\ Len(call.before.optimal_times) = Len(optimal_times)
    /\ call.before.optimal_times[Len(optimal_times)].engagement_score > Score(NewSlotThreshold)
    /\ optimal_times[Len(optimal_times)].engagement_score < Score(NewSlotThreshold)

====
